---- MODULE Spec2Model ----
(***************************************************************************)
(* Model of check_ToD.py: the directory classifier check_ToD and its       *)
(* command-line driver main.                                               *)
(*                                                                         *)
(* Strings are sequences of one-character strings, so that endswith, the   *)
(* relative-path construction and the concatenations are computed as the   *)
(* code computes them.  Saturation and value are means of 8-bit channels;  *)
(* they are held in tenths (5.0 is 50).                                    *)
(***************************************************************************)
EXTENDS Integers, Sequences, FiniteSets, TLC

VARIABLES mode, argc, rootExists, sep, files,
          pc, idx, data, read, result, csv, fault

vars == <<mode, argc, rootExists, sep, files,
          pc, idx, data, read, result, csv, fault>>

env == <<mode, argc, rootExists, sep, files>>

(* ------------------------------ bounds --------------------------------- *)

\* largest number of files in the scanned tree
MaxFiles == 2

(* ------------------------------ strings -------------------------------- *)

EXT_JPG  == <<".", "J", "P", "G">>
EXT_jpg  == <<".", "j", "p", "g">>
EXT_JPEG == <<".", "J", "P", "E", "G">>
EXT_jpeg == <<".", "j", "p", "e", "g">>
EXT_PNG  == <<".", "P", "N", "G">>
EXT_bak  == <<".", "b", "a", "k">>

\* the file names that occur in the modelled trees
FileNames ==
    { <<"a">> \o EXT_JPG, <<"a">> \o EXT_jpg, <<"a">> \o EXT_JPEG,
      <<"a">> \o EXT_jpeg, <<"a">> \o EXT_PNG, <<"a">> \o EXT_JPG \o EXT_bak }

\* directories under the root, as lists of path components, in the top-down
\* order in which os.walk yields them: the root, sub, sub/deep
Dirs == << <<>>, << <<"s", "u", "b">> >>,
           << <<"s", "u", "b">>, <<"d", "e", "e", "p">> >> >>

\* os.sep of the host: "/" (POSIX) or "\" (Windows)
Separators == {"/", "\\"}

\* str.endswith
endswith(s, suffix) ==
    /\ Len(s) >= Len(suffix)
    /\ SubSeq(s, Len(s) - Len(suffix) + 1, Len(s)) = suffix

\* Python's  a or b  on strings: a when a is non-empty, else b
PyOr(a, b) == IF a # <<>> THEN a ELSE b

\* the argument of endswith on line 56:
\*     '.JPG' or '.jpg' or '.JPEG' or '.jpeg'
FilterSuffix == PyOr(PyOr(PyOr(EXT_JPG, EXT_jpg), EXT_JPEG), EXT_jpeg)

PassesFilter_all(f) == endswith(f, EXT_JPG) \/ EXT_jpg # <<>>

\* the filename filter of line 56
PassesFilter(f) == endswith(f, FilterSuffix)

\* os.path.relpath(directory, start=image_directory)
relpath(dir) ==
    IF dir = <<>> THEN <<".">>
    ELSE IF Len(dir) = 1 THEN dir[1]
    ELSE dir[1] \o <<sep>> \o dir[2]

\* rel_subdir + '/' + f
RecordFilename(dir, f) == relpath(dir) \o <<"/">> \o f

(* ------------------------------ images --------------------------------- *)

\* 5.0, the saturation cutoff of lines 61 and 64, in tenths
THRESHOLD == 50

\* cv2.imread yields None for a file it can not decode
None == [decoded |-> FALSE, saturation |-> 0, value |-> 0]

\* decoded images by the channel means that lines 59-60 compute from them
Images ==
    { [decoded |-> TRUE, saturation |-> 49, value |-> 300],
      [decoded |-> TRUE, saturation |-> 50, value |-> 1200],
      [decoded |-> TRUE, saturation |-> 51, value |-> 1800] }

\* what cv2.imread returns for each file
Contents == Images \cup {None}

FileEntries == [dir : 1..Len(Dirs), name : FileNames, image : Contents]

\* the files of a tree in traversal order: directories top-down, no path twice
WalkOrders ==
    { w \in UNION { [1..n -> FileEntries] : n \in 0..MaxFiles } :
        /\ \A i, j \in DOMAIN w : i < j => w[i].dir <= w[j].dir
        /\ \A i, j \in DOMAIN w :
              (i # j) => <<w[i].dir, w[i].name>> # <<w[j].dir, w[j].name>> }

Classify_le(saturation) ==
    IF saturation <= THRESHOLD THEN "night"
    ELSE IF saturation > THRESHOLD THEN "day"
    ELSE "none"

\* the branches of lines 61-66
Classify(saturation) ==
    IF saturation < THRESHOLD THEN "night"
    ELSE IF saturation > THRESHOLD THEN "day"
    ELSE "none"

\* the dict appended on lines 62-63 and 65-66
Record(file, night) ==
    [filename   |-> RecordFilename(Dirs[file.dir], file.name),
     saturation |-> file.image.saturation,
     value      |-> file.image.value,
     Night      |-> night]

FileOutcome_guarded(file) ==
    IF ~PassesFilter(file.name) THEN "skip"
    ELSE IF file.image = None THEN "skip"
    ELSE Classify(file.image.saturation)

\* what the loop body (lines 56-66) does with one file: "skip" when the filter
\* rejects it, "fault" when cvtColor raises on the None that imread returned,
\* and else the branch taken
FileOutcome(file) ==
    IF ~PassesFilter(file.name) THEN "skip"
    ELSE IF file.image = None THEN "fault"
    ELSE Classify(file.image.saturation)

AppendRecord_front(d, rec) == <<rec>> \o d

\* data.append
AppendRecord(d, rec) == Append(d, rec)

\* the columns of pd.DataFrame(data): the keys of the dicts, none for []
Columns(d) ==
    IF d = <<>> THEN <<>>
    ELSE <<"filename", "saturation", "value", "Night">>

\* pd.DataFrame(data)
DataFrame(d) == [columns |-> Columns(d), rows |-> d]

\* df.to_csv(..., index=False): the header row and one row per record
to_csv(df) == [header |-> df.columns, rows |-> df.rows]

(* ------------------------------- main ---------------------------------- *)

\* the attributes of the namespace parse_args returns (lines 76-81)
NamespaceAttrs == {"image_directory", "save"}

MainOutcome_noassert ==
    IF argc = 0 THEN "help"
    ELSE IF argc # Cardinality(NamespaceAttrs) THEN "usage"
    ELSE IF "output_directory" \notin NamespaceAttrs THEN "AttributeError"
    ELSE "none"

\* how lines 83-93 end: the help exit, argparse's usage error, the failed
\* assertion, the attribute lookup of line 91, or none of them
MainOutcome ==
    IF argc = 0 THEN "help"
    ELSE IF argc # Cardinality(NamespaceAttrs) THEN "usage"
    ELSE IF ~rootExists THEN "AssertionError"
    ELSE IF "output_directory" \notin NamespaceAttrs THEN "AttributeError"
    ELSE "none"

(* ------------------------------ actions -------------------------------- *)

Init ==
    /\ mode \in {"cli", "api"}
    /\ argc \in IF mode = "cli" THEN {0, 1, 2} ELSE {0}
    /\ rootExists \in BOOLEAN
    /\ sep \in Separators
    /\ files \in IF rootExists THEN WalkOrders ELSE {<<>>}
    /\ pc = "start"
    /\ idx = 0
    /\ data = <<>>
    /\ read = {}
    /\ result = <<>>
    /\ csv = <<>>
    /\ fault = "none"

\* main up to its call of check_ToD (lines 72-97)
Main ==
    /\ mode = "cli"
    /\ pc = "start"
    /\ IF MainOutcome = "none"
         THEN pc' = "walk" /\ fault' = "none"
         ELSE IF MainOutcome \in {"help", "usage"}
           THEN pc' = "exit" /\ fault' = "none"
           ELSE pc' = "fault" /\ fault' = MainOutcome
    /\ data' = <<>>
    /\ UNCHANGED <<env, idx, read, result, csv>>

\* check_ToD called from Python (line 52)
CallCheckToD ==
    /\ mode = "api"
    /\ pc = "start"
    /\ pc' = "walk"
    /\ data' = <<>>
    /\ UNCHANGED <<env, idx, read, result, csv, fault>>

\* one iteration of the loop over the files (lines 53-66)
ProcessFile ==
    /\ pc = "walk"
    /\ idx < Len(files)
    /\ LET file == files[idx + 1]
           out  == FileOutcome(file)
       IN  /\ idx' = idx + 1
           /\ read' = IF PassesFilter(file.name) THEN read \cup {idx + 1} ELSE read
           /\ data' = CASE out = "night" -> AppendRecord(data, Record(file, TRUE))
                        [] out = "day"   -> AppendRecord(data, Record(file, FALSE))
                        [] OTHER         -> data
           /\ pc' = IF out = "fault" THEN "fault" ELSE "walk"
           /\ fault' = IF out = "fault" THEN "cv2.error" ELSE fault
    /\ UNCHANGED <<env, result, csv>>

\* the end of check_ToD (lines 67-68) and, under main, the rest of main
\* (lines 99-104)
Return ==
    /\ pc = "walk"
    /\ idx = Len(files)
    /\ result' = <<DataFrame(data)>>
    /\ csv' = IF mode = "cli" THEN <<to_csv(DataFrame(data))>> ELSE csv
    /\ pc' = "returned"
    /\ UNCHANGED <<env, idx, data, read, fault>>

Next == Main \/ CallCheckToD \/ ProcessFile \/ Return

Spec == Init /\ [][Next]_vars

(* ------------------------------ helpers -------------------------------- *)

\* the four image extensions the documentation names
ImageExtensions == {EXT_JPG, EXT_jpg, EXT_JPEG, EXT_jpeg}

HasImageExtension(s) == \E e \in ImageExtensions : endswith(s, e)

\* the path of a file relative to the root, components joined by "/"
SlashPath(file) ==
    LET dir == Dirs[file.dir]
    IN  IF dir = <<>> THEN file.name
        ELSE IF Len(dir) = 1 THEN dir[1] \o <<"/">> \o file.name
        ELSE dir[1] \o <<"/">> \o dir[2] \o <<"/">> \o file.name

\* the records the caller of check_ToD holds
Returned == IF result = <<>> THEN <<>> ELSE result[1].rows

\* the run is over
Ended == pc \in {"returned", "fault", "exit"}

\* the position in the traversal of the file a record was made from
FileIndexOf(rec) ==
    CHOOSE i \in DOMAIN files :
        RecordFilename(Dirs[files[i].dir], files[i].name) = rec.filename

ReportHeader == <<"filename", "saturation", "value", "Night">>

(* ------------------------------- claims -------------------------------- *)

\* C1: every record in the accumulating collection and in the returned
\* collection has Night = (saturation < 5.0).
C1_NightIffBelowThreshold ==
    /\ \A i \in DOMAIN data : data[i].Night = (data[i].saturation < THRESHOLD)
    /\ \A i \in DOMAIN Returned :
          Returned[i].Night = (Returned[i].saturation < THRESHOLD)

\* a returned collection that holds a night record and a day record
C1_Witness ==
    /\ pc = "returned"
    /\ \E i, j \in DOMAIN Returned :
          /\ Returned[i].Night /\ Returned[i].saturation < THRESHOLD
          /\ ~Returned[j].Night /\ Returned[j].saturation > THRESHOLD

\* C2: a file that passes the filter, decodes and has mean saturation exactly
\* 5.0 has one record in the result, with Night False.
C2_BoundaryIsDay ==
    pc = "returned" =>
        \A i \in DOMAIN files :
            ( /\ PassesFilter(files[i].name)
              /\ files[i].image # None
              /\ files[i].image.saturation = THRESHOLD )
            => /\ Cardinality({k \in DOMAIN Returned :
                     Returned[k].filename =
                         RecordFilename(Dirs[files[i].dir], files[i].name)}) = 1
               /\ \A k \in DOMAIN Returned :
                     Returned[k].filename =
                         RecordFilename(Dirs[files[i].dir], files[i].name)
                     => ~Returned[k].Night

\* C3: every file visited whose name ends in .JPG, .jpg, .JPEG or .jpeg passes
\* the filter and is read.
C3_AllFourExtensionsPass ==
    \A i \in 1..idx : HasImageExtension(files[i].name) => i \in read

\* C4: a file whose name ends in none of the four extensions is never read,
\* contributes no record and raises no error.
C4_OtherFilesIgnored ==
    /\ \A i \in read : HasImageExtension(files[i].name)
    /\ \A k \in DOMAIN data : HasImageExtension(data[k].filename)
    /\ \A k \in DOMAIN Returned : HasImageExtension(Returned[k].filename)
    /\ fault = "cv2.error" => HasImageExtension(files[idx].name)

\* a finished run over a tree with an undecodable file of another extension
C4_Witness ==
    /\ pc = "returned"
    /\ \E i \in DOMAIN files :
          ~HasImageExtension(files[i].name) /\ files[i].image = None
    /\ Returned # <<>>

\* C5: the filename of every record is the file's path relative to the root,
\* joined by forward slashes, with nothing added, at every depth.
C5_FilenameIsSlashPath ==
    \A k \in DOMAIN data : data[k].filename = SlashPath(files[FileIndexOf(data[k])])

\* C6: invoked with two arguments and an existing directory whose filtered
\* files all decode, main ends having called check_ToD and written the report,
\* without an unhandled error.
C6_MainWritesReport ==
    ( /\ mode = "cli" /\ argc = 2 /\ rootExists
      /\ \A i \in DOMAIN files :
            PassesFilter(files[i].name) => files[i].image # None
      /\ Ended )
    => /\ pc = "returned"
       /\ fault = "none"
       /\ csv = <<to_csv(DataFrame(data))>>

\* C7: once a file that passes the filter fails to decode, the run has ended
\* in a fault: nothing is returned, no later file is visited or read, and no
\* CSV is written.
C7_DecodeFailureIsFatal ==
    \A i \in 1..idx :
        (PassesFilter(files[i].name) /\ files[i].image = None)
        => /\ pc = "fault"
           /\ fault = "cv2.error"
           /\ result = <<>>
           /\ idx = i
           /\ \A j \in read : j <= i
           /\ csv = <<>>

\* the fault after a record was accumulated
C7_Witness ==
    /\ pc = "fault"
    /\ fault = "cv2.error"
    /\ data # <<>>
    /\ files[idx].image = None
    /\ result = <<>>

\* C8: with a directory that does not exist, main stops at the existence
\* assertion: check_ToD is not entered, no file is read, no CSV is written.
C8_MissingRootFailsFirst ==
    (mode = "cli" /\ argc = 2 /\ ~rootExists)
    => /\ pc \in {"start", "fault"}
       /\ pc = "fault" => fault = "AssertionError"
       /\ idx = 0
       /\ read = {}
       /\ result = <<>>
       /\ csv = <<>>

\* main has failed on a missing directory
C8_Witness ==
    /\ mode = "cli" /\ argc = 2 /\ ~rootExists
    /\ pc = "fault"
    /\ fault = "AssertionError"

\* C9: when no file passes the filter the run ends without error, the
\* returned collection is empty and the report has the header row filename,
\* saturation, value, Night and no data rows.
C9_EmptyReportHasHeader ==
    ( /\ rootExists
      /\ mode = "cli" => argc = 2
      /\ \A i \in DOMAIN files : ~PassesFilter(files[i].name)
      /\ Ended )
    => /\ pc = "returned"
       /\ fault = "none"
       /\ Returned = <<>>
       /\ to_csv(result[1]) = [header |-> ReportHeader, rows |-> <<>>]
       /\ mode = "cli" => csv = <<[header |-> ReportHeader, rows |-> <<>>]>>

\* C10: a step leaves the records of the collection in place and adds at
\* most one at the end; the records follow the order of the traversal and no
\* file has two.
C10_AppendOnly ==
    /\ [][ \/ data' = data
           \/ /\ Len(data') = Len(data) + 1
              /\ SubSeq(data', 1, Len(data)) = data
              /\ idx' = idx + 1 ]_vars
    /\ [](/\ Len(data) <= idx
          /\ \A k, l \in DOMAIN data :
                k < l => FileIndexOf(data[k]) < FileIndexOf(data[l])
          /\ \A k \in DOMAIN data : FileIndexOf(data[k]) <= idx)

\* two files have each added a record
C10_Witness ==
    /\ pc = "returned"
    /\ Len(data) = 2
    /\ FileIndexOf(data[1]) = 1
    /\ FileIndexOf(data[2]) = 2

====
